---- MODULE Spec2Model ----
(***************************************************************************)
(* ehrapy data reader: the heuristic text-table parser                     *)
(* (DataReader._read_text) and the CSV path (DataReader._df_to_anndata     *)
(* with _set_index and move_columns_to_obs) of src/ehrapy/api/io/read.py.  *)
(*                                                                         *)
(* A raw line is the sequence of its fields: the pieces between successive *)
(* separators (the delimiter when one is passed, single blanks otherwise). *)
(* An empty field is "" (two separators in a row).  Python values are      *)
(* records [t, s]: t the type, s the canonical text of the value.          *)
(***************************************************************************)
EXTENDS Integers, Sequences, FiniteSets, TLC

\* ------------------------------------------------------------------ bounds
\* lines the caller's stream may yield after its first non-comment line
MaxRest == 3
\* comment lines ahead of the first non-comment line
MaxComments == 1
\* columns and rows of the table pd.read_csv returns
MaxCols == 3
MaxRows == 2
\* names in columns_obs_only
MaxObsOnly == 2
\* in-place writes to X by downstream code after a read
MaxWrites == 1
\* calls of _read on the file, and edits of the file between them
MaxCalls == 2
MaxEdits == 1
\* names in vars and in the numeric variables, columns of values
MaxVars == 2

\* ------------------------------------------------------------ Python values
PyInt(s) == [t |-> "int", s |-> s]
PyFloat(s) == [t |-> "float", s |-> s]
PyStr(s) == [t |-> "str", s |-> s]
PyNone == [t |-> "None", s |-> ""]
F32(s) == [t |-> "float32", s |-> s]

None == [k |-> "None", i |-> 0, s |-> ""]

\* exceptions: the type, the source line of read.py that raises, and what the
\* message is formatted with: the lengths a and b (line 270), the texts msg
NoErr == [type |-> "none", at |-> 0, a |-> 0, b |-> 0, msg |-> {}]
Raise(type, at) == [type |-> type, at |-> at, a |-> 0, b |-> 0, msg |-> {}]

\* ------------------------------------------------------------------ tokens
\* tokens int() accepts, with the text of the integer
IntTokens == {"7", "0", "07"}
IntText(tok) == CASE tok = "07" -> "7" [] OTHER -> tok
\* tokens float() accepts beyond those
FloatTokens == {"2.5"}
\* repr of float(tok)
FloatText(tok) ==
    CASE tok = "7" -> "7.0" [] tok = "07" -> "7.0" [] tok = "0" -> "0.0"
      [] OTHER -> tok
\* text of int(x) for the float whose repr is s (truncation)
TruncText(s) ==
    CASE s = "7.0" -> "7" [] s = "0.0" -> "0" [] s = "2.5" -> "2" [] OTHER -> s

is_int(val) == val \in IntTokens
is_float(val) == val \in IntTokens \cup FloatTokens

\* str.lower and str.strip('"') on the tokens of the model
Lower(tok) == CASE tok = "Patient_ID" -> "patient_id" [] OTHER -> tok
Strip(tok) ==
    CASE tok = "\"a\"" -> "a" [] tok = "\"p1\"" -> "p1" [] OTHER -> tok

Map(F(_), seq) == [i \in 1..Len(seq) |-> F(seq[i])]
NonEmpty(tok) == tok # ""
\* np.arange(n).astype(str)
ArangeStr(n) == [i \in 1..n |-> ToString(i - 1)]

\* ------------------------------------------------------------------ inputs
HeaderPool == {<<"Patient_ID", "a", "b">>, <<"a", "b">>, <<"\"a\"", "b", "c">>}
RowPool ==
    {<<"7">>, <<"7", "2.5">>, <<"x", "0">>, <<"7", "0", "2.5">>,
     <<"\"p1\"", "07", "x">>, <<"7", "", "2.5">>}
FirstPool == HeaderPool \cup RowPool
\* a comment line after lstrip("# "): its blank-separated words
CommentPool == {<<>>, <<"c0", "c1">>}
Delimiters == {None, [k |-> "str", i |-> 0, s |-> ","]}
Dtypes == {"object", "float32"}
SeqsUpTo(S, n) == UNION {[1..k -> S] : k \in 0..n}

\* line.split(delimiter)
Split(line, delim) == IF delim = None THEN SelectSeq(line, NonEmpty) ELSE line
\* delimiter in line
DelimiterIn(line, delim) == Len(line) >= 2

\* --------------------------------------------------------------- the state
VARIABLES
    path,             \* "text": _read_text, "csv": _df_to_anndata
    pc,               \* position in the function
    err,              \* the exception raised, NoErr while none
    delimiter, dtype, \* arguments of _read_text
    raw_comments,     \* the leading "#" lines of the stream
    f,                \* the non-comment lines the stream has yielded so far
    eof,              \* the stream is exhausted
    comments, data, column_names, row_names, id_column_avail,
    column_names_arr, row_names_arr,
    recovered,        \* lines 249-251 ran to completion
    initial_df,       \* the DataFrame pd.read_csv returned
    index_column, columns_obs_only,   \* arguments of read_csv
    df, obs,          \* the locals of _df_to_anndata (BaseDataframes)
    warned,           \* an IndexColumnWarning was emitted
    arrays,           \* the ndarray objects: id -> contents
    adata,            \* the AnnData returned
    X0,               \* contents of X when adata was constructed
    writes,           \* in-place writes to adata.X so far
    filename,         \* DataReader._read: the suffix of the file read
    fs,               \* the source file and the cache file on disk
    calls,            \* the calls of _read so far: arguments and outcome
    objs,             \* set_numeric_vars: the AnnData objects, id -> X
    caller,           \* the adata argument: var_names, encoded, num_vars
    values_arg, vars_arg, copy_arg,   \* the arguments values, vars, copy
    local,            \* the object the name adata is bound to (line 96)
    vars_used,    \* the local vars after lines 82-83
    vars_idx, n_values,
    i_col,            \* columns written so far by the loop of line 100
    returned          \* the object returned, 0 while none

vars ==
    <<path, pc, err, delimiter, dtype, raw_comments, f, eof, comments, data,
      column_names, row_names, id_column_avail, column_names_arr,
      row_names_arr, recovered, initial_df, index_column, columns_obs_only,
      df, obs, warned, arrays, adata, X0, writes, filename, fs, calls, objs,
      caller, values_arg, vars_arg, copy_arg, local, vars_used, vars_idx,
      n_values, i_col, returned>>

textVars ==
    <<delimiter, dtype, raw_comments, f, eof, comments, data, column_names,
      row_names, id_column_avail, column_names_arr, row_names_arr, recovered>>
csvVars == <<initial_df, index_column, columns_obs_only, df, obs, warned>>
readVars == <<filename, fs, calls>>
numVars ==
    <<objs, caller, values_arg, vars_arg, copy_arg, local, vars_used, vars_idx,
      n_values, i_col, returned>>
\* what the parsers leave alone
restVars == <<readVars, numVars>>

\* no file on disk
NoFs == [present |-> FALSE, source |-> [v |-> 0, ok |-> FALSE], cache |-> 0]
\* _read is not in use
ReadIdle == filename = "" /\ fs = NoFs /\ calls = <<>>
\* set_numeric_vars is not in use
NumIdle ==
    /\ objs = <<>>
    /\ caller = [var_names |-> <<>>, encoded |-> FALSE, num_vars |-> <<>>]
    /\ values_arg = [numeric |-> FALSE, cols |-> 0]
    /\ vars_arg = [given |-> FALSE, names |-> <<>>]
    /\ copy_arg = FALSE /\ local = 0 /\ vars_used = <<>>
    /\ vars_idx = <<>> /\ n_values = 0 /\ i_col = 0 /\ returned = 0

NoAnnData ==
    [made |-> FALSE, X |-> 0, original |-> 0, obs_names |-> <<>>,
     var_names |-> <<>>, obs_columns |-> <<>>, obs |-> <<>>]

\* ------------------------------------------------- _cast_vals_to_numeric
CastVal(val) ==
    IF val = "0" THEN PyInt("0")
    ELSE IF val = "" THEN PyNone
    ELSE IF is_int(val) THEN PyInt(IntText(val))
    ELSE IF is_float(val) THEN PyFloat(FloatText(val))
    ELSE PyStr(val)

\* the list after the call: every element replaced in place
cast_vals_to_numeric(row) == Map(CastVal, row)

\* np.array(values, dtype=dtype) of one row: [ok, arr]
Convertible(v) == v.t # "str" \/ is_float(v.s)
ToF32(v) ==
    CASE v.t = "int" -> F32(FloatText(v.s))
      [] v.t = "float" -> F32(v.s)
      [] v.t = "None" -> F32("nan")
      [] OTHER -> F32(FloatText(v.s))
NpArray(values, dt) ==
    IF dt = "object" THEN [ok |-> TRUE, arr |-> values]
    ELSE IF \A i \in 1..Len(values) : Convertible(values[i])
         THEN [ok |-> TRUE, arr |-> Map(ToF32, values)]
         ELSE [ok |-> FALSE, arr |-> <<>>]

\* the cells of a line whose first token is its row label: the cast is applied
\* to the temporary list line_list[1:], the array is built from a second
\* slice of the untouched tokens
LabelledCells(line_list) ==
    LET casted == cast_vals_to_numeric(Tail(line_list))
    IN  Map(PyStr, Tail(line_list))
\* the cells of a line without a row label: line_list is cast in place
PlainCells(line_list) == cast_vals_to_numeric(line_list)

\* lines 233-241 and 254-261: one data line -> [ok, label, arr]
DataRow(line_list, id_avail, dt) ==
    LET cells == IF id_avail THEN LabelledCells(line_list)
                 ELSE PlainCells(line_list)
        a == NpArray(cells, dt)
    IN  [ok |-> a.ok,
         label |-> IF id_avail THEN <<line_list[1]>> ELSE <<>>,
         arr |-> a.arr]

NoFrame == [columns |-> <<>>, rows |-> <<>>, index |-> <<>>]

InitText ==
    /\ path = "text"
    /\ pc = "header"
    /\ err = NoErr
    /\ delimiter \in Delimiters
    /\ dtype \in Dtypes
    /\ raw_comments \in SeqsUpTo(CommentPool, MaxComments)
    /\ f = <<>>
    /\ eof = FALSE
    /\ comments = <<>>
    /\ data = <<>>
    /\ column_names = <<>>
    /\ row_names = <<>>
    /\ id_column_avail = FALSE
    /\ column_names_arr = <<>>
    /\ row_names_arr = <<>>
    /\ recovered = FALSE
    /\ initial_df = NoFrame
    /\ index_column = None
    /\ columns_obs_only = <<>>
    /\ df = NoFrame
    /\ obs = NoFrame
    /\ warned = FALSE
    /\ arrays = <<>>
    /\ adata = NoAnnData
    /\ X0 = <<>>
    /\ writes = 0
    /\ ReadIdle
    /\ NumIdle

\* ------------------------------------------------- _read_text, lines 196-230
\* lines 221-229 compute the fallback names (last comment line, else
\* "0".."N-1"); line 230 then assigns np.array(column_names) unconditionally
FallbackNames(cmts, dat) ==
    IF Len(cmts) > 0 THEN cmts[Len(cmts)] ELSE ArangeStr(Len(dat[1]))
ColumnNamesArr(col_names, cmts, dat) ==
    LET fallback == IF col_names = <<>> THEN FallbackNames(cmts, dat) ELSE <<>>
    IN  col_names

\* comments.append(comment) for every "#" line whose remainder is not empty
Comments(raw) == SelectSeq(raw, LAMBDA c : c # <<>>)

Fail(e) ==
    /\ err' = e
    /\ pc' = "done"

\* the stream yields its first non-comment line
ReadHeaderLine(line) ==
    /\ path = "text" /\ pc = "header"
    /\ f' = <<line>>
    /\ comments' = Comments(raw_comments)
    /\ UNCHANGED <<csvVars, restVars>>
    /\ UNCHANGED <<path, delimiter, dtype, raw_comments, eof, row_names_arr,
                   recovered, arrays, adata, X0, writes>>
    /\ IF delimiter # None /\ ~DelimiterIn(line, delimiter)
       \* f"Did not find delimiter {delimiter!r} in first line."
       THEN /\ Fail([Raise("ValueError", 204) EXCEPT !.msg = {delimiter.s}])
            /\ UNCHANGED <<data, column_names, row_names, id_column_avail,
                           column_names_arr>>
       ELSE LET line_list == Split(line, delimiter) IN
            IF ~is_float(line_list[Len(line_list)])
            THEN /\ column_names' = line_list
                 /\ id_column_avail' = ("patient_id" = Lower(line_list[1]))
                 /\ column_names_arr' = ColumnNamesArr(line_list, comments', data)
                 /\ pc' = "second"
                 /\ UNCHANGED <<err, data, row_names>>
            ELSE LET labelled == ~is_float(line_list[1])
                     a == NpArray(IF labelled THEN LabelledCells(line_list)
                                  ELSE PlainCells(line_list), dtype)
                 IN  /\ row_names' = IF labelled THEN <<line_list[1]>> ELSE <<>>
                     /\ UNCHANGED <<column_names, id_column_avail>>
                     /\ IF a.ok
                        THEN /\ data' = <<a.arr>>
                             /\ column_names_arr' =
                                    ColumnNamesArr(column_names, comments', data')
                             /\ pc' = "second"
                             /\ UNCHANGED err
                        ELSE /\ Fail(Raise("ValueError",
                                           IF labelled THEN 216 ELSE 219))
                             /\ UNCHANGED <<data, column_names_arr>>

\* the stream holds no non-comment line
ReadHeaderEOF ==
    /\ path = "text" /\ pc = "header"
    /\ eof' = TRUE
    /\ comments' = Comments(raw_comments)
    /\ UNCHANGED <<csvVars, restVars>>
    /\ UNCHANGED <<path, delimiter, dtype, raw_comments, f, data, column_names,
                   row_names, id_column_avail, row_names_arr, recovered, arrays,
                   adata, X0, writes>>
    /\ IF Len(comments') = 0
       THEN /\ Fail(Raise("IndexError", 229))
            /\ UNCHANGED column_names_arr
       ELSE /\ column_names_arr' = ColumnNamesArr(column_names, comments', data)
            /\ pc' = "second"
            /\ UNCHANGED err

\* ------------------------------------------------- _read_text, lines 232-251
\* what astype(int) makes of NaN is not defined: the minimum int64 on x86-64,
\* 0 on aarch64
NanAsInt == {"-9223372036854775808", "0"}

\* x.astype(int).astype(str) of one element: [ok, type, s]
IntStr(v, nan) ==
    CASE v.t = "float32" ->
           [ok |-> TRUE, type |-> "", s |-> IF v.s = "nan" THEN nan ELSE TruncText(v.s)]
      [] v.t = "int" -> [ok |-> TRUE, type |-> "", s |-> v.s]
      [] v.t = "float" -> [ok |-> TRUE, type |-> "", s |-> TruncText(v.s)]
      [] v.t = "None" -> [ok |-> FALSE, type |-> "TypeError", s |-> ""]
      [] OTHER -> IF is_int(v.s) THEN [ok |-> TRUE, type |-> "", s |-> IntText(v.s)]
                  ELSE [ok |-> FALSE, type |-> "ValueError", s |-> ""]

\* np.array(row).astype(int).astype(str): [ok, type, names]
AstypeIntStr(row, nan) ==
    LET bad == {i \in 1..Len(row) : ~IntStr(row[i], nan).ok}
        first == CHOOSE i \in bad : \A j \in bad : i <= j
    IN  IF bad = {}
        THEN [ok |-> TRUE, type |-> "",
              names |-> [i \in 1..Len(row) |-> IntStr(row[i], nan).s]]
        ELSE [ok |-> FALSE, type |-> IntStr(row[first], nan).type, names |-> <<>>]

\* lines 244-251 on the rows read so far: [err, column_names_arr, row_names,
\* data, recovered]
Recover(names_arr, labels, dat, dt, nan) ==
    LET keep == [err |-> NoErr, column_names_arr |-> names_arr,
                 row_names |-> labels, data |-> dat, recovered |-> FALSE]
        names == AstypeIntStr(dat[1], nan)
        failed(e) == [keep EXCEPT !.err = e]
    IN  IF ~(Len(dat) > 1 /\ Len(dat[1]) # Len(dat[2])) THEN keep
        ELSE IF ~names.ok THEN failed(Raise(names.type, 249))
        ELSE IF Len(dat[2]) = 0 THEN failed(Raise("IndexError", 250))
        \* an element of an object array is a plain Python object: no astype
        ELSE IF dt = "object" THEN failed(Raise("AttributeError", 250))
        ELSE [err |-> NoErr, column_names_arr |-> names.names,
              row_names |-> Append(labels, IntStr(dat[2][1], nan).s),
              data |-> <<Tail(dat[2])>>, recovered |-> TRUE]

ReadSecondLine(line) ==
    /\ path = "text" /\ pc = "second" /\ ~eof
    /\ Len(f) < 1 + MaxRest
    /\ f' = Append(f, line)
    /\ UNCHANGED <<csvVars, restVars>>
    /\ UNCHANGED <<path, delimiter, dtype, raw_comments, eof, comments,
                   column_names, id_column_avail, row_names_arr, arrays, adata,
                   X0, writes>>
    /\ LET r == DataRow(Split(line, delimiter), id_column_avail, dtype) IN
       IF ~r.ok
       THEN /\ Fail(Raise("ValueError", IF id_column_avail THEN 238 ELSE 241))
            /\ UNCHANGED <<data, row_names, column_names_arr, recovered>>
       ELSE \E nan \in NanAsInt :
            LET rec == Recover(column_names_arr, row_names \o r.label,
                               Append(data, r.arr), dtype, nan)
            IN  /\ err' = rec.err
                /\ pc' = IF rec.err = NoErr THEN "rest" ELSE "done"
                /\ data' = rec.data
                /\ row_names' = rec.row_names
                /\ column_names_arr' = rec.column_names_arr
                /\ recovered' = rec.recovered

\* the stream ends after its first non-comment line, or had none
ReadSecondEOF ==
    /\ path = "text" /\ pc = "second"
    /\ eof' = TRUE
    /\ pc' = "check"
    /\ UNCHANGED <<csvVars, restVars>>
    /\ UNCHANGED <<path, err, delimiter, dtype, raw_comments, f, comments, data,
                   column_names, row_names, id_column_avail, column_names_arr,
                   row_names_arr, recovered, arrays, adata, X0, writes>>

\* ------------------------------------------------- _read_text, lines 253-261
ParseLine(line) ==
    /\ path = "text" /\ pc = "rest" /\ ~eof
    /\ Len(f) < 1 + MaxRest
    /\ f' = Append(f, line)
    /\ UNCHANGED <<csvVars, restVars>>
    /\ UNCHANGED <<path, delimiter, dtype, raw_comments, eof, comments,
                   column_names, id_column_avail, column_names_arr,
                   row_names_arr, recovered, arrays, adata, X0, writes>>
    /\ LET r == DataRow(Split(line, delimiter), id_column_avail, dtype) IN
       IF ~r.ok
       THEN /\ Fail(Raise("ValueError", IF id_column_avail THEN 258 ELSE 261))
            /\ UNCHANGED <<data, row_names>>
       ELSE /\ data' = Append(data, r.arr)
            /\ row_names' = row_names \o r.label
            /\ UNCHANGED <<err, pc>>

ParseEOF ==
    /\ path = "text" /\ pc = "rest"
    /\ eof' = TRUE
    /\ pc' = "check"
    /\ UNCHANGED <<csvVars, restVars>>
    /\ UNCHANGED <<path, err, delimiter, dtype, raw_comments, f, comments, data,
                   column_names, row_names, id_column_avail, column_names_arr,
                   row_names_arr, recovered, arrays, adata, X0, writes>>

\* ------------------------------------------------- _read_text, lines 268-286
Ragged(dat) == \E i \in 1..Len(dat) : Len(dat[i]) # Len(dat[1])

\* lines 275-281
RowNamesArr(labels, nrows) ==
    IF labels = <<>> THEN ArangeStr(nrows) ELSE Map(Strip, labels)

\* AdaptColNames gone wrong: the surplus name is kept
KeepColNames(names_arr, ncols) == Map(Strip, names_arr)
\* lines 283-286: a surplus of column names loses its first name
AdaptColNames(names_arr, ncols) ==
    Map(Strip, IF Len(names_arr) > ncols THEN Tail(names_arr) ELSE names_arr)

CheckLen ==
    /\ path = "text" /\ pc = "check"
    /\ UNCHANGED <<csvVars, restVars>>
    /\ UNCHANGED <<path, delimiter, dtype, raw_comments, f, eof, comments, data,
                   column_names, row_names, id_column_avail, recovered, adata,
                   X0, writes>>
    /\ IF Len(data) = 0
       THEN /\ Fail(Raise("IndexError", 268))
            /\ UNCHANGED <<arrays, row_names_arr, column_names_arr>>
       ELSE IF Len(data[1]) # Len(data[Len(data)])
       THEN /\ Fail([Raise("ValueError", 269) EXCEPT
                         !.a = Len(data[1]), !.b = Len(data[Len(data)])])
            /\ UNCHANGED <<arrays, row_names_arr, column_names_arr>>
       ELSE IF Ragged(data)
       \* np.array of rows of unequal length: an error for a numeric dtype, a
       \* 1-D array of row objects for dtype object, whose shape[1] fails
       THEN /\ Fail(IF dtype = "object" THEN Raise("IndexError", 283)
                    ELSE Raise("ValueError", 272))
            /\ UNCHANGED <<arrays, row_names_arr, column_names_arr>>
       ELSE /\ arrays' = (1 :> data)
            /\ row_names_arr' = RowNamesArr(row_names, Len(data))
            /\ column_names_arr' = AdaptColNames(column_names_arr, Len(data[1]))
            /\ pc' = "construct"
            /\ UNCHANGED err

\* ------------------------------------------------- ndarray objects
\* CopyRef gone wrong: the layer is the array itself
AliasRef(arrs, r) == r
\* the id of ndarray.copy(): a new object
CopyRef(arrs, r) == Cardinality(DOMAIN arrs) + 1
\* the arrays once the copy of r exists under id c
WithCopy(arrs, r, c) == IF c \in DOMAIN arrs THEN arrs ELSE arrs @@ (c :> arrs[r])

\* ------------------------------------------------- _read_text, lines 287-293
\* AnnData(...) refuses obs or var whose length is not that of X's axis
Construct ==
    /\ path = "text" /\ pc = "construct"
    /\ pc' = "done"
    /\ UNCHANGED <<csvVars, restVars>>
    /\ UNCHANGED <<path, delimiter, dtype, raw_comments, f, eof, comments, data,
                   column_names, row_names, id_column_avail, column_names_arr,
                   row_names_arr, recovered, writes>>
    /\ IF Len(row_names_arr) # Len(arrays[1])
          \/ Len(column_names_arr) # Len(arrays[1][1])
       THEN /\ err' = Raise("ValueError", 287)
            /\ UNCHANGED <<arrays, adata, X0>>
       ELSE LET c == CopyRef(arrays, 1) IN
            /\ arrays' = WithCopy(arrays, 1, c)
            /\ adata' = [made |-> TRUE, X |-> 1, original |-> c,
                         obs_names |-> row_names_arr,
                         var_names |-> column_names_arr,
                         obs_columns |-> <<>>, obs |-> <<>>]
            /\ X0' = arrays[1]
            /\ UNCHANGED err

\* ------------------------------------------------- downstream code
WriteVals == {PyInt("0")}
\* adata.X[i, j] = v
WriteX(i, j, v) ==
    /\ pc = "done" /\ adata.made
    /\ writes < MaxWrites
    /\ i \in 1..Len(arrays[adata.X])
    /\ j \in 1..Len(arrays[adata.X][i])
    /\ arrays' = [arrays EXCEPT ![adata.X][i][j] =
                     IF path = "text" /\ dtype = "float32" THEN ToF32(v) ELSE v]
    /\ writes' = writes + 1
    /\ UNCHANGED <<csvVars, restVars>>
    /\ UNCHANGED <<path, pc, err, delimiter, dtype, raw_comments, f, eof,
                   comments, data, column_names, row_names, id_column_avail,
                   column_names_arr, row_names_arr, recovered, adata, X0>>

\* ------------------------------------------------- the CSV path: inputs
ColNames == {"patient_id", "Patient_ID", "a", "b"}
\* the value pd.read_csv parsed at row r (from 0) of the column called name
CellOf(name, r) ==
    CASE name = "a" -> PyInt(ToString(20 + r))
      [] name = "b" -> PyStr("x" \o ToString(r))
      [] OTHER -> PyInt(ToString(12 + r))
NoDup(seq) == \A i, j \in 1..Len(seq) : i # j => seq[i] # seq[j]
\* a frame as pd.read_csv returns it: unique column names, a RangeIndex
Frame(cols, nrows) ==
    [columns |-> cols,
     rows |-> [r \in 1..nrows |-> [c \in 1..Len(cols) |-> CellOf(cols[c], r - 1)]],
     index |-> [r \in 1..nrows |-> PyInt(ToString(r - 1))]]
Frames ==
    {Frame(cols, n) : cols \in {c \in SeqsUpTo(ColNames, MaxCols) : Len(c) > 0 /\ NoDup(c)},
                      n \in 1..MaxRows}
IntArg(i) == [k |-> "int", i |-> i, s |-> ""]
StrArg(name) == [k |-> "str", i |-> 0, s |-> name]
IndexColumns ==
    {None} \cup {IntArg(i) : i \in 0..MaxCols}
           \cup {StrArg(name) : name \in {"patient_id", "a", "zz"}}
ObsOnlyNames == {"patient_id", "a", "b", "zz"}

InitCsv ==
    /\ path = "csv"
    /\ pc = "set_index"
    /\ err = NoErr
    /\ initial_df \in Frames
    /\ index_column \in IndexColumns
    /\ columns_obs_only \in SeqsUpTo(ObsOnlyNames, MaxObsOnly)
    /\ df = initial_df
    /\ obs = NoFrame
    /\ warned = FALSE
    /\ delimiter = None
    /\ dtype = "object"
    /\ raw_comments = <<>>
    /\ f = <<>>
    /\ eof = FALSE
    /\ comments = <<>>
    /\ data = <<>>
    /\ column_names = <<>>
    /\ row_names = <<>>
    /\ id_column_avail = FALSE
    /\ column_names_arr = <<>>
    /\ row_names_arr = <<>>
    /\ recovered = FALSE
    /\ arrays = <<>>
    /\ adata = NoAnnData
    /\ X0 = <<>>
    /\ writes = 0
    /\ ReadIdle
    /\ NumIdle

\* ------------------------------------------------- pandas
Range(seq) == {seq[i] : i \in 1..Len(seq)}
Pos(seq, x) == CHOOSE i \in 1..Len(seq) : seq[i] = x
\* seq without the positions in drop
Without(seq, drop) ==
    LET keep(i) == Cardinality({k \in 1..i : k \notin drop})
        n == Len(seq) - Cardinality(drop \cap (1..Len(seq)))
    IN  [i \in 1..n |-> seq[CHOOSE k \in 1..Len(seq) : k \notin drop /\ keep(k) = i]]
\* str(v)
Str(v) == v.s

\* df.set_index(name): the column becomes the index and leaves the columns
SetIndexTo(frame, name) ==
    LET p == Pos(frame.columns, name) IN
    [columns |-> Without(frame.columns, {p}),
     rows |-> [r \in 1..Len(frame.rows) |-> Without(frame.rows[r], {p})],
     index |-> [r \in 1..Len(frame.rows) |-> frame.rows[r][p]]]

\* df[names]: the named columns in the order of names; df.index.map(str)
Select(frame, names) ==
    [columns |-> names,
     rows |-> [r \in 1..Len(frame.rows) |->
                 [c \in 1..Len(names) |-> frame.rows[r][Pos(frame.columns, names[c])]]],
     index |-> Map(Str, frame.index)]

\* df.drop(names, axis=1)
Drop(frame, names) ==
    LET gone == {i \in 1..Len(frame.columns) : frame.columns[i] \in Range(names)} IN
    [columns |-> Without(frame.columns, gone),
     rows |-> [r \in 1..Len(frame.rows) |-> Without(frame.rows[r], gone)],
     index |-> frame.index]

\* ------------------------------------------------- _set_index
\* set_index gone wrong: the integer is taken as a one-based position
set_index_one_based(frame, index_col) ==
    LET column_names_ == frame.columns
        plain == [err |-> NoErr, df |-> frame, warned |-> FALSE]
    IN  IF index_col.k = "str"
        THEN IF index_col.s \in Range(column_names_)
             THEN [plain EXCEPT !.df = SetIndexTo(frame, index_col.s)]
             ELSE [plain EXCEPT !.err = Raise("KeyError", 341)]
        ELSE IF index_col.k = "int"
        THEN IF index_col.i \in 1..Len(column_names_)
             THEN [plain EXCEPT !.df = SetIndexTo(frame, column_names_[index_col.i])]
             ELSE [plain EXCEPT !.err = Raise("IndexError", 343)]
        ELSE IF "patient_id" = column_names_[1]
             THEN [plain EXCEPT !.df = SetIndexTo(frame, "patient_id")]
             ELSE [plain EXCEPT !.warned = TRUE]

\* [err, df, warned]
set_index(frame, index_col) ==
    LET column_names_ == frame.columns
        plain == [err |-> NoErr, df |-> frame, warned |-> FALSE]
    IN  IF index_col.k = "str"
        THEN IF index_col.s \in Range(column_names_)
             THEN [plain EXCEPT !.df = SetIndexTo(frame, index_col.s)]
             ELSE [plain EXCEPT !.err = Raise("KeyError", 341)]
        ELSE IF index_col.k = "int"
        THEN IF index_col.i + 1 \in 1..Len(column_names_)
             THEN [plain EXCEPT !.df = SetIndexTo(frame, column_names_[index_col.i + 1])]
             ELSE [plain EXCEPT !.err = Raise("IndexError", 343)]
        ELSE IF "patient_id" = column_names_[1]
             THEN [plain EXCEPT !.df = SetIndexTo(frame, "patient_id")]
             ELSE [plain EXCEPT !.warned = TRUE]

\* ------------------------------------------------- move_columns_to_obs
\* move_columns_to_obs gone wrong: unknown names are skipped
move_columns_lenient(frame, cols_obs_only) ==
    LET known == SelectSeq(cols_obs_only, LAMBDA n : n \in Range(frame.columns))
    IN  [err |-> NoErr, obs |-> Select(frame, known), df |-> Drop(frame, known)]
\* move_columns_to_obs gone wrong: obs takes the columns in the frame's order
move_columns_file_order(frame, cols_obs_only) ==
    IF cols_obs_only # <<>>
    THEN IF Range(cols_obs_only) \subseteq Range(frame.columns)
         THEN [err |-> NoErr,
               obs |-> Select(frame, SelectSeq(frame.columns,
                                  LAMBDA n : n \in Range(cols_obs_only))),
               df |-> Drop(frame, cols_obs_only)]
         ELSE [err |-> Raise("ColumnNotFoundError", 367), obs |-> NoFrame,
               df |-> frame]
    ELSE [err |-> NoErr, obs |-> Select(frame, <<>>), df |-> frame]

\* [err, obs, df]
move_columns_to_obs(frame, cols_obs_only) ==
    IF cols_obs_only # <<>>
    THEN IF Range(cols_obs_only) \subseteq Range(frame.columns)
         THEN [err |-> NoErr, obs |-> Select(frame, cols_obs_only),
               df |-> Drop(frame, cols_obs_only)]
         ELSE [err |-> Raise("ColumnNotFoundError", 367), obs |-> NoFrame,
               df |-> frame]
    ELSE [err |-> NoErr, obs |-> Select(frame, <<>>), df |-> frame]

\* ------------------------------------------------- _df_to_anndata
\* line 301
SetIndex ==
    /\ path = "csv" /\ pc = "set_index"
    /\ LET r == set_index(df, index_column) IN
       /\ err' = r.err
       /\ df' = r.df
       /\ warned' = r.warned
       /\ pc' = IF r.err = NoErr THEN "move_columns" ELSE "done"
    /\ UNCHANGED <<path, initial_df, index_column, columns_obs_only, obs, arrays,
                   adata, X0, writes>>
    /\ UNCHANGED <<textVars, restVars>>

\* line 303
MoveColumns ==
    /\ path = "csv" /\ pc = "move_columns"
    /\ LET r == move_columns_to_obs(df, columns_obs_only) IN
       /\ err' = r.err
       /\ df' = r.df
       /\ obs' = r.obs
       /\ pc' = IF r.err = NoErr THEN "to_anndata" ELSE "done"
    /\ UNCHANGED <<path, initial_df, index_column, columns_obs_only, warned,
                   arrays, adata, X0, writes>>
    /\ UNCHANGED <<textVars, restVars>>

\* lines 304-311
ToAnnData ==
    /\ path = "csv" /\ pc = "to_anndata"
    /\ LET x == df.rows
           c == CopyRef((1 :> x), 1)
       IN  /\ arrays' = WithCopy((1 :> x), 1, c)
           /\ adata' = [made |-> TRUE, X |-> 1, original |-> c,
                        obs_names |-> obs.index, var_names |-> df.columns,
                        obs_columns |-> obs.columns, obs |-> obs.rows]
           /\ X0' = x
    /\ pc' = "done"
    /\ UNCHANGED <<path, err, initial_df, index_column, columns_obs_only, df,
                   obs, warned, writes>>
    /\ UNCHANGED <<textVars, restVars>>

\* ------------------------------------------------- DataReader._read
\* a file name is modelled by its suffix; the extension argument likewise,
\* "" for None
supported_extensions == {"csv", "tsv", "txt", "tab", "data", "h5", "h5ad"}
Suffixes == {"csv", "txt", "h5ad", "zip"}
Extensions == {"", "csv", "txt", "zip"}

\* is_valid_filename(filename, return_ext=True): [ok, ext]
is_valid_filename(name) ==
    IF name \in supported_extensions THEN [ok |-> TRUE, ext |-> name]
    ELSE [ok |-> FALSE, ext |-> ""]

\* _check_datafile_present_and_download(path, backup_url): [is_present, fs]
check_datafile_present_and_download(disk, backup_url) ==
    IF disk.present THEN [is_present |-> TRUE, fs |-> disk]
    ELSE IF ~backup_url THEN [is_present |-> FALSE, fs |-> disk]
    ELSE [is_present |-> TRUE, fs |-> [disk EXCEPT !.present = TRUE]]

\* the outcome of a call: the exception, the reader that produced the result,
\* where the result came from ("source", "cache"), the version of the content
\* it holds, and the disk after the call
Raised(e, disk) ==
    [err |-> e, reader |-> "none", from |-> "none", value |-> 0, fs |-> disk]
Result(reader, from, value, disk) ==
    [err |-> NoErr, reader |-> reader, from |-> from, value |-> value, fs |-> disk]

\* lines 102-107: the reader for an extension, "none" without one
ReaderOf(ext) ==
    IF ext \in {"csv", "tsv"} THEN "read_csv"
    ELSE IF ext \in {"txt", "tab", "data"} THEN "read_text"
    ELSE "none"

\* _read gone wrong: the cache file is consulted whatever the cache argument
read_always_cached(name, extension, cache, backup_url, disk) ==
    LET dl == check_datafile_present_and_download(disk, backup_url)
        ext == is_valid_filename(name).ext
    IN  IF extension # "" /\ extension \notin supported_extensions
        THEN Raised(Raise("ValueError", 81), disk)
        ELSE IF ~is_valid_filename(name).ok
        THEN Raised(Raise("ValueError", 83), disk)
        ELSE IF ext \in {"h5", "h5ad"}
        THEN IF disk.present
             THEN Result("read_h5ad", "source", disk.source.v, disk)
             ELSE Raised(Raise("OSError", 86), disk)
        ELSE IF dl.fs.cache # 0
        THEN Result("read_h5ad", "cache", dl.fs.cache, dl.fs)
        ELSE IF ~dl.is_present
        THEN Raised(Raise("FileNotFoundError", 99), dl.fs)
        ELSE IF ReaderOf(ext) = "none"
        THEN Raised(Raise("ValueError", 107), dl.fs)
        ELSE IF ~dl.fs.source.ok
        THEN Raised(Raise("Exception", IF ReaderOf(ext) = "read_csv" THEN 103 ELSE 105),
                    dl.fs)
        ELSE Result(ReaderOf(ext), "source", dl.fs.source.v,
                    IF cache /\ ext \notin {"csv", "tsv"}
                    THEN [dl.fs EXCEPT !.cache = dl.fs.source.v] ELSE dl.fs)

\* lines 80-116.  Line 83 is the else branch of line 80: it runs for every
\* extension argument that passes line 80 and replaces it by the extension
\* of the file name.  The reader raises (some exception, passed on by _read)
\* when the content of the source is not a table it accepts (source.ok).
_read(name, extension, cache, backup_url, disk) ==
    LET dl == check_datafile_present_and_download(disk, backup_url)
        ext == is_valid_filename(name).ext
    IN  IF extension # "" /\ extension \notin supported_extensions
        THEN Raised(Raise("ValueError", 81), disk)
        ELSE IF ~is_valid_filename(name).ok
        THEN Raised(Raise("ValueError", 83), disk)
        ELSE IF ext \in {"h5", "h5ad"}
        THEN IF disk.present
             THEN Result("read_h5ad", "source", disk.source.v, disk)
             ELSE Raised(Raise("OSError", 86), disk)
        ELSE IF cache /\ dl.fs.cache # 0
        THEN Result("read_h5ad", "cache", dl.fs.cache, dl.fs)
        ELSE IF ~dl.is_present
        THEN Raised(Raise("FileNotFoundError", 99), dl.fs)
        ELSE IF ReaderOf(ext) = "none"
        THEN Raised(Raise("ValueError", 107), dl.fs)
        ELSE IF ~dl.fs.source.ok
        THEN Raised(Raise("Exception", IF ReaderOf(ext) = "read_csv" THEN 103 ELSE 105),
                    dl.fs)
        ELSE Result(ReaderOf(ext), "source", dl.fs.source.v,
                    IF cache /\ ext \notin {"csv", "tsv"}
                    THEN [dl.fs EXCEPT !.cache = dl.fs.source.v] ELSE dl.fs)

\* the variables of the parsers while no parse is modelled
ParsersIdle ==
    /\ err = NoErr
    /\ delimiter = None /\ dtype = "object" /\ raw_comments = <<>>
    /\ f = <<>> /\ eof = FALSE /\ comments = <<>> /\ data = <<>>
    /\ column_names = <<>> /\ row_names = <<>> /\ id_column_avail = FALSE
    /\ column_names_arr = <<>> /\ row_names_arr = <<>> /\ recovered = FALSE
    /\ initial_df = NoFrame /\ index_column = None /\ columns_obs_only = <<>>
    /\ df = NoFrame /\ obs = NoFrame /\ warned = FALSE
    /\ arrays = <<>> /\ adata = NoAnnData /\ X0 = <<>> /\ writes = 0
parserVars ==
    <<err, textVars, csvVars, arrays, adata, X0, writes>>

\* a file name, its file on disk or not, and no cache file yet
InitRead ==
    /\ path = "read"
    /\ pc = "idle"
    /\ ParsersIdle
    /\ filename \in Suffixes
    /\ \E present, ok \in BOOLEAN :
           fs = [present |-> present, source |-> [v |-> 1, ok |-> ok], cache |-> 0]
    /\ calls = <<>>
    /\ NumIdle

\* one call of _read on the file
Read(extension, cache, backup_url) ==
    /\ path = "read"
    /\ Len(calls) < MaxCalls
    /\ LET out == _read(filename, extension, cache, backup_url, fs) IN
       /\ fs' = out.fs
       /\ calls' = Append(calls, [extension |-> extension, cache |-> cache,
                                  backup_url |-> backup_url, before |-> fs,
                                  out |-> out])
    /\ UNCHANGED <<path, pc, filename, parserVars, numVars>>

\* the file is rewritten between two calls
EditSource(ok) ==
    /\ path = "read"
    /\ fs.present /\ fs.source.v < 1 + MaxEdits
    /\ fs' = [fs EXCEPT !.source = [v |-> fs.source.v + 1, ok |-> ok]]
    /\ UNCHANGED <<path, pc, filename, calls, parserVars, numVars>>

\* the cache file is deleted between two calls
RemoveCache ==
    /\ path = "read"
    /\ fs.cache # 0
    /\ fs' = [fs EXCEPT !.cache = 0]
    /\ UNCHANGED <<path, pc, filename, calls, parserVars, numVars>>

\* ------------------------------------------------- set_numeric_vars
\* (src/ehrapy/api/_anndata_util.py; the exceptions carry its line numbers)
\* var_names of an X of n columns, and the content of its cells
NameAt == <<"a", "b", "c", "d", "e">>
VarNamesOf(n) == SubSeq(NameAt, 1, n)
XOf(n) == [r \in 1..MaxRows |-> [c \in 1..n |-> 10 * r + c]]
\* the values argument: k columns, other numbers than those of X
ValuesOf(k) == [r \in 1..MaxRows |-> [c \in 1..k |-> 100 + 10 * r + c]]
\* names that vars and uns["categoricals"]["not_categorical"] may hold; "zz"
\* is no variable of X
NumNames == {"a", "b", "zz"}
\* vars=None
NoVars == [given |-> FALSE, names |-> <<>>]
VarsArg(names) == [given |-> TRUE, names |-> names]

\* get_column_indices(adata, col_names): the positions (from 1 here) of the
\* var_names that are in col_names, in the order of var_names
get_column_indices(var_names, col_names) ==
    SelectSeq([p \in 1..Len(var_names) |-> p],
              LAMBDA p : var_names[p] \in Range(col_names))

\* adata.X[:, col] = values[:, i]
SetColumnOf(X, col, vals, i) ==
    [r \in 1..Len(X) |-> [X[r] EXCEPT ![col] = vals[r][i]]]

InitNum ==
    /\ path = "set_numeric_vars"
    /\ pc = "check"
    /\ ParsersIdle
    /\ ReadIdle
    /\ \E n \in 1..MaxCols :
           /\ objs = (1 :> XOf(n))
           /\ \E enc \in BOOLEAN,
                 nv \in {q \in SeqsUpTo(NumNames, MaxVars) : NoDup(q)} :
                  caller = [var_names |-> VarNamesOf(n), encoded |-> enc,
                            num_vars |-> nv]
    /\ \E num \in BOOLEAN, k \in 1..MaxVars :
           values_arg = [numeric |-> num, cols |-> k]
    /\ vars_arg \in {NoVars} \cup {VarsArg(q) : q \in SeqsUpTo(NumNames, MaxVars)}
    /\ copy_arg \in BOOLEAN
    /\ local = 1
    /\ vars_used = <<>> /\ vars_idx = <<>> /\ n_values = 0 /\ i_col = 0
    /\ returned = 0

\* lines 78-98: the checks, the copy and the column indices
SetCheck ==
    /\ path = "set_numeric_vars" /\ pc = "check"
    /\ LET num_vars == caller.num_vars
           vars_ == IF ~vars_arg.given THEN num_vars ELSE vars_arg.names
           failed(e) ==
               /\ Fail(e)
               /\ UNCHANGED <<objs, local, vars_used, vars_idx, n_values>>
       IN  IF ~caller.encoded THEN failed(Raise("NotEncodedError", 45))
           ELSE IF vars_arg.given /\ ~(Range(vars_) \subseteq Range(num_vars))
           THEN failed(Raise("ValueError", 85))
           ELSE IF ~values_arg.numeric THEN failed(Raise("TypeError", 88))
           ELSE IF values_arg.cols # Len(vars_)
           THEN failed([Raise("ValueError", 93) EXCEPT
                            !.a = values_arg.cols, !.b = Len(vars_)])
           ELSE /\ vars_used' = vars_
                /\ n_values' = values_arg.cols
                /\ local' = IF copy_arg THEN 2 ELSE 1
                /\ objs' = IF copy_arg THEN objs @@ (2 :> objs[1]) ELSE objs
                /\ vars_idx' = get_column_indices(caller.var_names, vars_)
                /\ pc' = "loop"
                /\ UNCHANGED err
    /\ UNCHANGED <<path, caller, values_arg, vars_arg, copy_arg, i_col, returned>>
    /\ UNCHANGED <<textVars, csvVars, readVars, arrays, adata, X0, writes>>

\* lines 100-101: one turn of the loop
SetColumn ==
    /\ path = "set_numeric_vars" /\ pc = "loop" /\ i_col < n_values
    /\ IF i_col + 1 > Len(vars_idx)
       THEN /\ Fail(Raise("IndexError", 101))
            /\ UNCHANGED <<objs, i_col>>
       ELSE /\ objs' = [objs EXCEPT ![local] =
                           SetColumnOf(@, vars_idx[i_col + 1],
                                       ValuesOf(values_arg.cols), i_col + 1)]
            /\ i_col' = i_col + 1
            /\ UNCHANGED <<pc, err>>
    /\ UNCHANGED <<path, caller, values_arg, vars_arg, copy_arg, local,
                   vars_used, vars_idx, n_values, returned>>
    /\ UNCHANGED <<textVars, csvVars, readVars, arrays, adata, X0, writes>>

\* line 103
SetReturn ==
    /\ path = "set_numeric_vars" /\ pc = "loop" /\ i_col = n_values
    /\ returned' = local
    /\ pc' = "done"
    /\ UNCHANGED <<path, err, objs, caller, values_arg, vars_arg, copy_arg,
                   local, vars_used, vars_idx, n_values, i_col>>
    /\ UNCHANGED <<textVars, csvVars, readVars, arrays, adata, X0, writes>>

\* ================================================================== claims
Csv == path = "csv"
Text == path = "text"
Returned == pc = "done" /\ adata.made
\* column p (from 1) of the table read_csv returned
ColumnAt(p) == [r \in 1..Len(initial_df.rows) |-> initial_df.rows[r][p]]
FilePos(name) == Pos(initial_df.columns, name)

\* C1: the "original" layer is another object than X, equal to X when the
\* AnnData is constructed, and no in-place write to X changes any of its
\* elements (text parser and CSV path).
C1_SnapshotIndependent ==
    adata.made =>
        /\ adata.original # adata.X
        /\ arrays[adata.original] = X0
        /\ writes = 0 => arrays[adata.X] = X0
\* a read returned, X was then written and differs from the snapshot
C1_Witness ==
    /\ Returned /\ writes > 0
    /\ arrays[adata.X] # X0
    /\ arrays[adata.original] = X0

\* C2: a non-empty columns_obs_only with a name that is no column of the
\* table: the read (whose index column argument is valid) ends with
\* ColumnNotFoundError and returns no AnnData, not even a partial one.
UnknownObsOnly ==
    \E n \in Range(columns_obs_only) : n \notin Range(initial_df.columns)
C2_UnknownColumnFails ==
    (Csv /\ UnknownObsOnly) =>
        /\ ~adata.made
        /\ pc \notin {"to_anndata"}
        /\ (pc = "done" /\ err.at \notin {341, 343}) =>
               err = Raise("ColumnNotFoundError", 367)
\* one known and one unknown name: the known column was not moved either
C2_Witness ==
    /\ Csv /\ pc = "done" /\ UnknownObsOnly
    /\ \E n \in Range(columns_obs_only) : n \in Range(df.columns)
    /\ err.type = "ColumnNotFoundError"
    /\ obs = NoFrame /\ ~adata.made

\* the column _set_index is to take out of the table, "" when none
IndexName ==
    CASE index_column.k = "str" -> index_column.s
      [] index_column.k = "int" -> initial_df.columns[index_column.i + 1]
      [] OTHER -> IF initial_df.columns[1] = "patient_id" THEN "patient_id" ELSE ""
\* the labels left in X: the table's columns, in the table's order, but for
\* the index column and the moved ones
Remaining ==
    SelectSeq(initial_df.columns,
              LAMBDA n : n # IndexName /\ n \notin Range(columns_obs_only))
\* obs holds the columns named by names, in that order, row by row
ObsHolds(names) ==
    /\ adata.obs_columns = names
    /\ Len(adata.obs) = Len(initial_df.rows)
    /\ \A r \in 1..Len(initial_df.rows) :
           adata.obs[r] = [c \in 1..Len(names) |-> initial_df.rows[r][FilePos(names[c])]]
Moved ==
    /\ Returned
    /\ Range(adata.var_names) \cap Range(columns_obs_only) = {}
    /\ adata.var_names = Remaining
    /\ \A r \in 1..Len(initial_df.rows) :
           X0[r] = [c \in 1..Len(Remaining) |-> initial_df.rows[r][FilePos(Remaining[c])]]
    /\ Len(adata.obs_names) = Len(initial_df.rows)
\* the named columns in their relative order in the file
InFileOrder(names) == SelectSeq(initial_df.columns, LAMBDA n : n \in Range(names))

\* C3 as stated: all names (distinct, none of them the index column) exist in
\* the table => the columns leave X and the labels, the remaining labels keep
\* their order, and obs holds the named columns in their relative order in
\* the file.
C3_Original ==
    (Csv /\ pc = "done" /\ err.at \notin {341, 343} /\ columns_obs_only # <<>>
         /\ Range(columns_obs_only) \subseteq Range(initial_df.columns)
         /\ IndexName \notin Range(columns_obs_only)
         /\ NoDup(columns_obs_only)) =>
        Moved /\ ObsHolds(InFileOrder(columns_obs_only))
\* C3 amended: all names exist among the columns left once the index column
\* is taken out => the columns leave X and the labels, the remaining labels
\* keep their order, and obs holds the named columns in the order (and
\* multiplicity) of the caller's list, aligned with the row labels.
C3_MovedInCallerOrder ==
    (Csv /\ pc = "done" /\ err.at \notin {341, 343} /\ columns_obs_only # <<>>
         /\ Range(columns_obs_only) \subseteq Range(initial_df.columns)
         /\ IndexName \notin Range(columns_obs_only)) =>
        Moved /\ ObsHolds(columns_obs_only)
\* two columns moved, listed against the file's order, one column left in X
C3_Witness ==
    /\ Csv /\ Returned
    /\ Len(columns_obs_only) = 2
    /\ Range(columns_obs_only) \subseteq Range(initial_df.columns)
    /\ FilePos(columns_obs_only[1]) > FilePos(columns_obs_only[2])
    /\ adata.obs_columns = columns_obs_only
    /\ Len(adata.var_names) >= 1

\* C5: index_column = i and index_column = c, c the name of column i, give
\* the same result: column c leaves the columns (one column fewer) and the
\* row labels are str() of its values in row order.
IndexPos ==
    IF index_column.k = "int" THEN index_column.i + 1
    ELSE FilePos(index_column.s)
ValidIndexArg ==
    \/ index_column.k = "int" /\ index_column.i + 1 \in 1..Len(initial_df.columns)
    \/ index_column.k = "str" /\ index_column.s \in Range(initial_df.columns)
C5_IndexByPositionOrName ==
    /\ Csv =>
         \A i \in 0..(Len(initial_df.columns) - 1) :
             set_index(initial_df, IntArg(i))
                 = set_index(initial_df, StrArg(initial_df.columns[i + 1]))
    /\ (Csv /\ ValidIndexArg /\ pc # "set_index") =>
         /\ err.at \notin {341, 343}
         /\ pc = "move_columns" =>
              /\ df.columns = Without(initial_df.columns, {IndexPos})
              /\ Len(df.columns) = Len(initial_df.columns) - 1
              /\ \A r \in 1..Len(df.rows) :
                     df.rows[r] = Without(initial_df.rows[r], {IndexPos})
              /\ df.index = ColumnAt(IndexPos)
         /\ Returned =>
              /\ adata.obs_names = Map(Str, ColumnAt(IndexPos))
              /\ initial_df.columns[IndexPos] \notin Range(adata.var_names)
              /\ columns_obs_only = <<>> =>
                     Len(adata.var_names) = Len(initial_df.columns) - 1
\* a read by position, not the first column, returned
C5_Witness ==
    /\ Csv /\ Returned
    /\ index_column.k = "int" /\ index_column.i >= 1
    /\ adata.obs_names = Map(Str, ColumnAt(index_column.i + 1))
    /\ Len(adata.var_names) = Len(initial_df.columns) - 1


\* ------------------------------------------------- claims on _read_text
\* the first non-comment line was taken as the header
HasHeader == Text /\ column_names # <<>>
\* the tokens of the k-th non-comment line
Tokens(k) == Split(f[k], delimiter)
\* "patient_id", whatever the case of its letters
IsPatientId(tok) == tok \in {"patient_id", "Patient_ID"}
NCols == Len(arrays[1][1])
\* the exception came from the width check or later: every line was read
AllLinesRead == pc \in {"check", "construct", "done"} /\ err.at \notin {204, 216, 219, 229, 238, 241, 249, 250, 258, 261}

\* C4 as stated (no index column passed), text parser: a header starting with
\* patient_id in any case => every data row's first token is its label and
\* is not in the matrix; any other header => nothing is excluded, the labels
\* are "0".."rows-1", and a table of uniform lines is returned.
C4_Text ==
    /\ (HasHeader /\ Returned /\ IsPatientId(column_names[1])) =>
         /\ Len(adata.obs_names) = Len(f) - 1 /\ Len(X0) = Len(f) - 1
         /\ \A i \in 1..Len(X0) :
                /\ adata.obs_names[i] = Strip(Tokens(i + 1)[1])
                /\ Len(X0[i]) = Len(Tokens(i + 1)) - 1
    /\ (HasHeader /\ Returned /\ ~IsPatientId(column_names[1])) =>
         /\ adata.obs_names = ArangeStr(Len(f) - 1) /\ Len(X0) = Len(f) - 1
         /\ \A i \in 1..Len(X0) : Len(X0[i]) = Len(Tokens(i + 1))
    /\ (HasHeader /\ pc = "done" /\ ~IsPatientId(column_names[1])
          /\ dtype = "object" /\ Len(f) > 1
          /\ \A k \in 2..Len(f) : Len(Tokens(k)) = Len(column_names)) =>
         Returned
\* C4 as stated, CSV path.
C4_Csv ==
    /\ (Csv /\ index_column = None /\ Returned
          /\ IsPatientId(initial_df.columns[1])) =>
         /\ adata.obs_names = Map(Str, ColumnAt(1))
         /\ initial_df.columns[1] \notin Range(adata.var_names)
    /\ (Csv /\ index_column = None /\ Returned
          /\ ~IsPatientId(initial_df.columns[1])) =>
         /\ adata.obs_names = ArangeStr(Len(initial_df.rows))
         /\ columns_obs_only = <<>> => adata.var_names = initial_df.columns
    /\ (Csv /\ index_column = None /\ pc = "done" /\ columns_obs_only = <<>>) =>
         Returned
\* C4: with no index column passed, in the text parser and in the CSV path,
\* a header whose first token equals "patient_id" case-insensitively makes
\* every row's first token its label and keeps it out of the matrix; any
\* other first token excludes nothing, gives the labels "0".."rows-1" and
\* the read succeeds.
C4_PatientIdAnyCase == C4_Text /\ C4_Csv

\* C6 as stated: with a header line, at the construction of the result the
\* column labels are as many as the matrix columns, that is the header's
\* field count (no row-label column) or one less (row-label column), and
\* every data row has that many values.
C6_Original ==
    (HasHeader /\ pc = "construct") =>
        /\ Len(column_names_arr) = NCols
        /\ NCols = IF id_column_avail THEN Len(column_names) - 1
                   ELSE Len(column_names)
        /\ \A i \in 1..Len(data) : Len(data[i]) = NCols
\* C6 amended: at the construction every data row has as many values as the
\* matrix has columns; the column labels are the header's fields, less the
\* first one when the header has more fields than the matrix has columns
\* (row-label column or not); when every data line has as many fields as the
\* header, the labels are as many as the matrix columns: the header's field
\* count without a row-label column, one less with one.
C6_LabelsAgainstColumns ==
    (HasHeader /\ pc = "construct") =>
        /\ \A i \in 1..Len(data) : Len(data[i]) = NCols
        /\ Len(column_names_arr) =
               IF Len(column_names) > NCols THEN Len(column_names) - 1
               ELSE Len(column_names)
        /\ (\A k \in 2..Len(f) : Len(Tokens(k)) = Len(column_names)) =>
               /\ Len(column_names_arr) = NCols
               /\ NCols = IF id_column_avail THEN Len(column_names) - 1
                          ELSE Len(column_names)
\* a patient_id header and two data lines of its width reach construction
C6_Witness ==
    /\ HasHeader /\ pc = "construct" /\ id_column_avail
    /\ Len(data) >= 2
    /\ \A k \in 2..Len(f) : Len(Tokens(k)) = Len(column_names)
    /\ Len(column_names_arr) = NCols
    /\ NCols = Len(column_names) - 1

\* C7: whenever some data row (after the recovery of lines 244-251) has
\* another number of values than the others, at any position, _read_text
\* raises the row-width error of line 269 with the first row's length and
\* the offending row's length, and returns no table.
C7_RaggedRowRaises ==
    (Text /\ pc = "done" /\ AllLinesRead /\ Ragged(data)) =>
        /\ err.type = "ValueError" /\ err.at = 269
        /\ err.a = Len(data[1])
        /\ \E i \in 1..Len(data) : Len(data[i]) # Len(data[1]) /\ err.b = Len(data[i])
        /\ ~adata.made

\* every token of the k-th non-comment line is numeric
Numeric(k) == \A t \in 1..Len(Tokens(k)) : is_float(Tokens(k)[t])
\* C8: without a header line (all tokens numeric), the first data row
\* becomes the column names and the first field of the second row a row
\* label if and only if the first two data rows differ in field count; a
\* mismatch that first shows on a later row raises the row-width error of
\* line 269 instead.
C8_RecoveryIffFirstTwoDiffer ==
    /\ (Text /\ column_names = <<>> /\ Len(f) >= 2 /\ Numeric(1) /\ Numeric(2)) =>
         /\ recovered <=> Len(Tokens(1)) # Len(Tokens(2))
         /\ (recovered /\ pc = "rest") =>
              /\ Len(column_names_arr) = Len(Tokens(1))
              /\ Len(row_names) = 1
              /\ Len(data[1]) = Len(Tokens(2)) - 1
    /\ (Text /\ column_names = <<>> /\ Len(f) >= 3 /\ pc = "done"
          /\ \A k \in 1..Len(f) : Numeric(k)
          /\ Len(Tokens(1)) = Len(Tokens(2))
          /\ \E m \in 3..Len(f) : Len(Tokens(m)) # Len(Tokens(1))) =>
         (~recovered /\ err.type = "ValueError" /\ err.at = 269)

\* C9: when the first non-comment line ends in a numeric token (no header),
\* the column labels are the words of the last comment line if there is
\* one, else "0".."N-1", N the field count of that first line.
C9_FallbackColumnNames ==
    (Text /\ pc = "second" /\ Len(f) = 1 /\ column_names = <<>>) =>
        column_names_arr =
            IF comments # <<>> THEN comments[Len(comments)]
            ELSE ArangeStr(Len(Tokens(1)))

\* the tokens behind row i of data: line i + 1 under a header, line i without
\* one; less the first token when that is the row's label
CellTokens(i) ==
    IF HasHeader
    THEN IF id_column_avail THEN Tail(Tokens(i + 1)) ELSE Tokens(i + 1)
    ELSE IF i = 1 /\ ~is_float(Tokens(1)[1]) THEN Tail(Tokens(1)) ELSE Tokens(i)
\* C10: every cell of the matrix is the cast of its token, in rows with a
\* row label and in rows without: "0" -> 0, "" -> None, an integer token ->
\* int, a float token -> float, anything else stays text.
C10_CellsAreCast ==
    (Text /\ dtype = "object" /\ ~recovered /\ err = NoErr) =>
        \A i \in 1..Len(data) :
            data[i] = [j \in 1..Len(CellTokens(i)) |-> CastVal(CellTokens(i)[j])]

\* the stream ended without a data row: nothing but comments (or nothing at
\* all), or a header line and nothing after it
NoDataRows ==
    Text /\ eof /\ (Len(f) = 0 \/ (Len(f) = 1 /\ column_names # <<>>))
\* a delimiter was passed and is not in the first non-comment line
DelimiterMissing ==
    Text /\ Len(f) >= 1 /\ delimiter # None /\ ~DelimiterIn(f[1], delimiter)
\* C11: _read_text ends with its malformed-table error (the ValueError it
\* raises for a table it cannot read) and returns no table whenever (a) the
\* input has no data row at all, the error then naming the empty input, or
\* (b) a delimiter was passed and is not in the first non-comment line, the
\* error then naming that delimiter.
C11_MalformedTable ==
    /\ (NoDataRows /\ pc = "done") =>
         /\ ~adata.made
         /\ err.type = "ValueError"
         /\ err.msg = {"empty"}
    /\ (DelimiterMissing /\ pc = "done") =>
         /\ ~adata.made
         /\ err.type = "ValueError" /\ err.at = 204
         /\ err.msg = {delimiter.s}

\* the names of columns_obs_only that are no column of the table
Unmatched ==
    {n \in Range(columns_obs_only) : n \notin Range(initial_df.columns)}
\* C12: when some name of columns_obs_only is no column of the table, the
\* ColumnNotFoundError raised names exactly the unmatched names: all of
\* them, and none of the names that are columns.
C12_ErrorNamesUnmatched ==
    (Csv /\ pc = "done" /\ err.type = "ColumnNotFoundError" /\ Unmatched # {}) =>
        err.msg = Unmatched

\* C17: at the construction of the result the row labels are as many as the
\* matrix rows, the i-th label being that of the i-th row: no label was
\* collected and the labels are "0".."rows-1", or one label was collected
\* for each row kept in the matrix (also when the first line is a data row
\* with a non-numeric first token, and when the recovery of lines 244-251
\* ran).
C17_OneLabelPerRow ==
    (Text /\ pc = "construct") =>
        /\ Len(row_names_arr) = Len(arrays[1])
        /\ \/ row_names = <<>> /\ row_names_arr = ArangeStr(Len(arrays[1]))
           \/ Len(row_names) = Len(data) /\ row_names_arr = Map(Strip, row_names)
        /\ id_column_avail =>
               \A i \in 1..Len(data) : row_names_arr[i] = Strip(Tokens(i + 1)[1])

\* ------------------------------------------------- claims on _read
\* the reader _read is to dispatch for an extension
Dispatched(ext) == IF ext \in {"h5", "h5ad"} THEN "read_h5ad" ELSE ReaderOf(ext)
\* C13: an extension argument that is one of the supported extensions decides
\* the reader (h5ad, csv/tsv, txt/tab/data) whatever the suffix of the file
\* name; the suffix of the file name is used only when extension is None.
C13_ExtensionDecides ==
    \A i \in 1..Len(calls) :
        LET c == calls[i]
            wanted == IF c.extension # "" THEN c.extension ELSE filename
        IN  /\ (c.out.err = NoErr /\ c.out.from = "source") =>
                   c.out.reader = Dispatched(wanted)
            /\ c.extension \in supported_extensions => c.out.err.at # 83

\* the call got to a reader of the source: it returned what the reader made
\* of the source, or passed on the reader's exception
Parsed(c) == c.out.from = "source" \/ c.out.err.at \in {103, 105}
\* the arguments pass lines 80-83, and the source file is there to be read:
\* on disk, or downloaded from the backup URL (line 88, which an h5ad file
\* does not get to)
Readable(c) ==
    /\ c.out.err.at \notin {81, 83}
    /\ c.before.present \/ (c.backup_url /\ filename \notin {"h5", "h5ad"})
\* C14: over any sequence of _read calls on one file name (with arguments
\* that pass lines 80-83 and the source file available): a call with
\* cache=False parses the source and neither reads, creates nor changes the
\* cache file; a call with cache=True returns the content of the cache file,
\* without parsing the source, exactly when the cache file exists at that
\* moment, and parses the source otherwise; a successful cache=True read of
\* a txt/tab/data file leaves the cache file in place, holding what it
\* returned, so that the next cache=True call (the cache file still there)
\* is served from it; a csv/tsv read never creates the cache file.
C14_CacheProtocol ==
    \A i \in 1..Len(calls) :
        LET c == calls[i] IN
        /\ ~c.cache =>
             /\ c.out.fs.cache = c.before.cache
             /\ c.out.from # "cache"
             /\ Readable(c) => Parsed(c)
        /\ (c.cache /\ c.out.err.at \notin {81, 83}) =>
             /\ c.out.from = "cache" <=> c.before.cache # 0
             /\ c.out.from = "cache" =>
                    /\ c.out.value = c.before.cache /\ ~Parsed(c)
                    /\ c.out.fs.cache = c.before.cache
             /\ (c.before.cache = 0 /\ Readable(c)) => Parsed(c)
        /\ (c.cache /\ c.out.err = NoErr /\ c.out.reader = "read_text") =>
             /\ c.out.fs.cache = c.out.value
             /\ c.out.fs.cache # 0
             /\ (i < Len(calls) /\ calls[i + 1].cache
                   /\ calls[i + 1].out.err.at \notin {81, 83}
                   /\ calls[i + 1].before.cache = c.out.fs.cache) =>
                    /\ calls[i + 1].out.from = "cache"
                    /\ calls[i + 1].out.value = c.out.value
        /\ c.out.reader = "read_csv" => c.out.fs.cache = c.before.cache
\* a cache=True read of a text file wrote the cache file, the source was then
\* rewritten, and the next cache=True call returned the cached content
C14_Witness ==
    /\ Len(calls) = 2
    /\ calls[1].cache /\ calls[1].out.reader = "read_text"
    /\ calls[1].before.cache = 0
    /\ calls[2].cache /\ calls[2].out.from = "cache"
    /\ calls[2].out.value = calls[1].out.value
    /\ fs.source.v # calls[2].out.value

\* ------------------------------------------------- claims on set_numeric_vars
Num == path = "set_numeric_vars"
\* X of the caller's object when set_numeric_vars was called
CallerX0 == XOf(Len(caller.var_names))
\* column c of the matrix X
ColumnOf(X, c) == [r \in 1..Len(X) |-> X[r][c]]
\* C15: after set_numeric_vars returns, for every position i the column of
\* the returned X named vars[i] equals values[:, i], whatever the order of
\* vars relative to var_names, and every column not named in vars is
\* unchanged.
C15_ColumnsSetByName ==
    (Num /\ pc = "done" /\ returned # 0) =>
        /\ \A i \in 1..Len(vars_used) :
               ColumnOf(objs[returned], Pos(caller.var_names, vars_used[i]))
                   = ColumnOf(ValuesOf(values_arg.cols), i)
        /\ \A c \in 1..Len(caller.var_names) :
               caller.var_names[c] \notin Range(vars_used) =>
                   ColumnOf(objs[returned], c) = ColumnOf(CallerX0, c)

\* C16: the caller's X is modified only when copy=False and the call returns
\* normally: with copy=True it is unchanged and the update goes to another,
\* returned object; whenever the call raises (not encoded, vars not among
\* the numeric vars, values not numeric, column-count mismatch, a failure
\* while the columns are written) no element of the caller's X has changed.
C16_CallerXOnlyOnSuccess ==
    Num =>
        /\ copy_arg =>
               /\ objs[1] = CallerX0
               /\ returned # 1
        /\ (pc = "done" /\ err # NoErr) =>
               /\ returned = 0
               /\ objs[1] = CallerX0
        /\ objs[1] # CallerX0 => (~copy_arg /\ err = NoErr)

NextText ==
    \/ \E line \in FirstPool : ReadHeaderLine(line)
    \/ ReadHeaderEOF
    \/ \E line \in RowPool : ReadSecondLine(line)
    \/ ReadSecondEOF
    \/ \E line \in RowPool : ParseLine(line)
    \/ ParseEOF
    \/ CheckLen
    \/ Construct

NextCsv == SetIndex \/ MoveColumns \/ ToAnnData

NextWrite ==
    /\ adata.made
    /\ \E i \in 1..Len(arrays[adata.X]) :
           \E j \in 1..Len(arrays[adata.X][i]), v \in WriteVals : WriteX(i, j, v)

Init == InitText \/ InitCsv

Next == NextText \/ NextCsv \/ NextWrite

\* a read by either path, and the writes of downstream code to its result
Spec == Init /\ [][Next]_vars

NextRead ==
    \/ \E extension \in Extensions, cache, backup_url \in BOOLEAN :
           Read(extension, cache, backup_url)
    \/ \E ok \in BOOLEAN : EditSource(ok)
    \/ RemoveCache

\* calls of _read on one file name
SpecRead == InitRead /\ [][NextRead]_vars

NextNum == SetCheck \/ SetColumn \/ SetReturn

\* one call of set_numeric_vars
SpecNum == InitNum /\ [][NextNum]_vars

\* _read_text alone
SpecText == InitText /\ [][NextText]_vars

\* _df_to_anndata alone
SpecCsv == InitCsv /\ [][NextCsv]_vars
====
